---- MODULE Spec2Model ----
(***************************************************************************)
(* Model of src/Optimization/task_v2.js: the CSV parser (ParserCsv), the   *)
(* column-addressed table (TableData), the fixed-width renderer            *)
(* (RendererTable) and the orchestrator (App.run).                         *)
(*                                                                         *)
(* JavaScript strings are sequences of one-character strings.  JavaScript  *)
(* values are records [t, n, s] so that any two values can be compared:    *)
(*   t = "str"  a string, its characters in s                              *)
(*   t = "num"  a finite number (an integer here), in n                    *)
(*   t = "nan", "inf", "-inf"  the three non-finite numbers                *)
(*   t = "undefined"  the value of a missing array element                 *)
(*   t = "ref"  a reference to the array at heap address n                 *)
(* Array indexes are 1-based here: JavaScript index i is index i + 1, and  *)
(* indexOf's "not found" result -1 is 0.                                   *)
(***************************************************************************)
EXTENDS Integers, Sequences, FiniteSets

VARIABLES
    \* ---- App (one run of the pipeline) ----
    data,          \* App.#data: the raw text
    inputFormat,   \* App.#inputFormat
    outputFormat,  \* App.#outputFormat
    dataSchema,    \* App.#dataSchema: own entries, a sequence of [key, cast]
    pc,            \* position of run()
    err,           \* the Error run() threw, or NoError
    calls,         \* the calls run() has made so far, in order
    parser,        \* the ParserCsv instance: [columns, lines]
    rows,          \* run()'s local `rows` (the cast rows)
    table,         \* run()'s local `table`: [columns, rows]
    maxDensity,    \* run()'s local `maxDensity`
    result,        \* run()'s local `result`: [columns, rows]
    rendered,      \* the argument of renderer.render
    sink,          \* the lines written through RendererTable.#output
    \* ---- TableData objects on the heap, and their caller ----
    heap,          \* the arrays: address -> sequence of values
    tables,        \* the TableData instances: [columns, rows] (addresses)
    built,         \* per instance, what its getters returned at construction
    held,          \* addresses of the arrays the caller holds
    mutations,     \* how many times the caller has mutated an array it holds
    lastOp         \* the last TableData call and what it returned

appVars == <<data, inputFormat, outputFormat, dataSchema, pc, err, calls,
             parser, rows, table, maxDensity, result, rendered, sink>>
objVars == <<heap, tables, built, held, mutations, lastOp>>
vars == <<appVars, objVars>>

-----------------------------------------------------------------------------
\* Bounds of the model.

\* Most data lines of an input text.
MaxRows == 3
\* Most TableData instances alive in the object model.
MaxTables == 3
\* Most arrays on the heap before the caller stops calling.
MaxHeap == 12
\* Most rows of a table the caller builds.
MaxTableRows == 2
\* Most mutations the caller makes of the arrays it holds.
MaxMutations == 1

-----------------------------------------------------------------------------
\* JavaScript values.

Str(chars) == [t |-> "str", n |-> 0, s |-> chars]
Num(k) == [t |-> "num", n |-> k, s |-> <<>>]
NaN == [t |-> "nan", n |-> 0, s |-> <<>>]
PosInf == [t |-> "inf", n |-> 0, s |-> <<>>]
NegInf == [t |-> "-inf", n |-> 0, s |-> <<>>]
Undefined == [t |-> "undefined", n |-> 0, s |-> <<>>]
Ref(a) == [t |-> "ref", n |-> a, s |-> <<>>]

\* array[i] of JavaScript: undefined outside the array.
At(array, i) == IF i \in 1..Len(array) THEN array[i] ELSE Undefined

Digits == <<"0", "1", "2", "3", "4", "5", "6", "7", "8", "9">>
DigitSet == {Digits[i] : i \in 1..10}
DigitVal(c) == (CHOOSE i \in 1..10 : Digits[i] = c) - 1
WhiteSpace == {" ", "\t", "\r", "\n"}

Trim(s) ==
    LET keep == {i \in 1..Len(s) : s[i] \notin WhiteSpace}
    IN  IF keep = {} THEN <<>>
        ELSE LET lo == CHOOSE i \in keep : \A j \in keep : i <= j
                 hi == CHOOSE i \in keep : \A j \in keep : j <= i
             IN  SubSeq(s, lo, hi)

RECURSIVE DecimalValue(_)
DecimalValue(ds) ==
    IF ds = <<>> THEN 0
    ELSE 10 * DecimalValue(SubSeq(ds, 1, Len(ds) - 1)) + DigitVal(ds[Len(ds)])

\* StringToNumber: white space trimmed, the empty string is 0, an optionally
\* signed run of decimal digits is its value, anything else is NaN.  (Hex,
\* fractions, exponents and "Infinity" are not in the inputs of this model.)
StringToNumber(s) ==
    LET t == Trim(s)
        signed == t # <<>> /\ t[1] \in {"-", "+"}
        ds == IF signed THEN Tail(t) ELSE t
    IN  IF t = <<>> THEN Num(0)
        ELSE IF ds # <<>> /\ \A i \in 1..Len(ds) : ds[i] \in DigitSet
             THEN Num(IF t[1] = "-" THEN 0 - DecimalValue(ds) ELSE DecimalValue(ds))
             ELSE NaN

\* Number(v), also the coercion of the operands of -, * and /.
ToNumber(v) ==
    CASE v.t = "str" -> StringToNumber(v.s)
      [] v.t \in {"num", "nan", "inf", "-inf"} -> v
      [] OTHER -> NaN

RECURSIVE NatToString(_)
NatToString(k) ==
    IF k < 10 THEN <<Digits[k + 1]>>
    ELSE NatToString(k \div 10) \o <<Digits[(k % 10) + 1]>>

\* String(v)
ToString(v) ==
    CASE v.t = "str" -> v.s
      [] v.t = "num" -> IF v.n < 0 THEN <<"-">> \o NatToString(0 - v.n)
                        ELSE NatToString(v.n)
      [] v.t = "nan" -> <<"N", "a", "N">>
      [] v.t = "inf" -> <<"I", "n", "f", "i", "n", "i", "t", "y">>
      [] v.t = "-inf" -> <<"-", "I", "n", "f", "i", "n", "i", "t", "y">>
      [] v.t = "undefined" -> <<"u", "n", "d", "e", "f", "i", "n", "e", "d">>
      [] OTHER -> <<>>

Sign(k) == IF k > 0 THEN 1 ELSE IF k < 0 THEN 0 - 1 ELSE 0

\* The sign of a number, 2 for NaN.
NumSign(x) ==
    CASE x.t = "num" -> Sign(x.n)
      [] x.t = "inf" -> 1
      [] x.t = "-inf" -> 0 - 1
      [] OTHER -> 2

\* The sign of ToNumber(a) - ToNumber(b), with 0 for a NaN difference: what
\* Array.prototype.sort makes of a comparator's result.
SubSign(a, b) ==
    LET x == ToNumber(a)
        y == ToNumber(b)
    IN  CASE x.t = "nan" \/ y.t = "nan" -> 0
          [] x.t = "num" /\ y.t = "num" -> Sign(x.n - y.n)
          [] x.t = y.t -> 0
          [] x.t = "inf" \/ y.t = "-inf" -> 1
          [] OTHER -> 0 - 1

\* x < y on numbers (false when either is NaN).
NumLess(x, y) ==
    CASE x.t = "nan" \/ y.t = "nan" -> FALSE
      [] x.t = "num" /\ y.t = "num" -> x.n < y.n
      [] x.t = y.t -> FALSE
      [] OTHER -> x.t = "-inf" \/ y.t = "inf"

\* Math.max(...xs): -Infinity for no arguments, NaN when any argument is NaN.
RECURSIVE MathMax(_)
MathMax(xs) ==
    IF xs = <<>> THEN NegInf
    ELSE LET m == MathMax(Tail(xs))
             x == Head(xs)
         IN  IF x.t = "nan" \/ m.t = "nan" THEN NaN
             ELSE IF NumLess(x, m) THEN m ELSE x

\* floor(a / b) for integers a and b, b # 0.
FloorDiv(a, b) == IF b > 0 THEN a \div b ELSE (0 - a) \div (0 - b)

\* Math.round(x * 100 / m) on numbers: the quotient rounded to the nearest
\* integer, a half rounded up.
RoundedPercent(x, m) ==
    CASE x.t = "nan" \/ m.t = "nan" -> NaN
      [] x.t = "num" /\ m.t = "num" ->
            IF m.n # 0 THEN Num(FloorDiv(200 * x.n + m.n, 2 * m.n))
            ELSE IF x.n > 0 THEN PosInf
            ELSE IF x.n < 0 THEN NegInf
            ELSE NaN
      [] x.t = "num" -> Num(0)
      [] m.t = "num" ->
            IF NumSign(x) * (IF m.n < 0 THEN 0 - 1 ELSE 1) > 0 THEN PosInf ELSE NegInf
      [] OTHER -> NaN

RECURSIVE Concat(_)
Concat(ss) == IF ss = <<>> THEN <<>> ELSE Head(ss) \o Concat(Tail(ss))

\* The permutations of 1..n, as sequences.
Perms(n) == {p \in [1..n -> 1..n] : \A i, j \in 1..n : p[i] = p[j] => i = j}

-----------------------------------------------------------------------------
\* ParserCsv

lineSep == "\n"
cellSep == ","

\* String.prototype.split(sep) for a one-character separator: the pieces
\* between the separators, one piece (the empty string) for the empty string.
SplitBy(s, sep) ==
    LET RECURSIVE go(_, _, _)
        go(i, cur, acc) ==
            IF i > Len(s) THEN Append(acc, cur)
            ELSE IF s[i] = sep THEN go(i + 1, <<>>, Append(acc, cur))
            ELSE go(i + 1, Append(cur, s[i]), acc)
    IN  go(1, <<>>, <<>>)

\* new ParserCsv(csv): the first line is split into the column names, the
\* other lines are kept unsplit.
ParserCsvNew(csv) ==
    LET all == SplitBy(csv, lineSep)
        names == SplitBy(Head(all), cellSep)
    IN  [columns |-> [i \in 1..Len(names) |-> Str(names[i])], lines |-> Tail(all)]

\* The properties every object literal inherits from Object.prototype that
\* this model knows: name -> the inherited function.
toStringName == <<"t", "o", "S", "t", "r", "i", "n", "g">>
valueOfName == <<"v", "a", "l", "u", "e", "O", "f">>
undefinedName == <<"u", "n", "d", "e", "f", "i", "n", "e", "d">>
ObjectPrototype(key) ==
    CASE key = toStringName -> "Object.prototype.toString"
      [] key = valueOfName -> "Object.prototype.valueOf"
      [] OTHER -> "undefined"

\* Whether the object literal `types` has an own entry for key.
HasOwn(types, key) == \E i \in 1..Len(types) : types[i].key = key

\* types[column]: the own entry, else what Object.prototype holds under that
\* name, else undefined.  An undefined column (a cell past the header's last
\* column) is looked up under the key "undefined".
Lookup(types, column) ==
    LET key == IF column.t = "undefined" THEN undefinedName ELSE column.s
    IN  IF HasOwn(types, key)
        THEN types[CHOOSE i \in 1..Len(types) : types[i].key = key].cast
        ELSE ObjectPrototype(key)

objectUndefined ==
    <<"[", "o", "b", "j", "e", "c", "t", " ",
      "U", "n", "d", "e", "f", "i", "n", "e", "d", "]">>

\* cast(value), called as a plain function (this = undefined, strict mode):
\* [threw, value].  "Number" is the built-in; "strictNumber" is a caller's
\* cast that throws on a string that is no number.
CallCast(cast, value) ==
    CASE cast = "Number" -> [threw |-> FALSE, value |-> ToNumber(value)]
      [] cast = "strictNumber" ->
            [threw |-> ToNumber(value).t = "nan", value |-> ToNumber(value)]
      [] cast = "Object.prototype.toString" ->
            [threw |-> FALSE, value |-> Str(objectUndefined)]
      [] OTHER -> [threw |-> TRUE, value |-> Undefined]

\* ParserCsv.cellWithTypes(types)(value, column)
cellWithTypes(types, value, column) ==
    LET cast == Lookup(types, column)
    IN  IF cast # "undefined" THEN CallCast(cast, value)
        ELSE [threw |-> FALSE, value |-> value]

\* parser.toDatasetArray({cellTransformers: [cellWithTypes(types)]}): every
\* line split into cells, every cell through the cell pipeline with the name
\* of the column at its index; [threw, rows].
toDatasetArray(p, types) ==
    LET cells(line) == SplitBy(line, cellSep)
        cast(line, i) == cellWithTypes(types, Str(cells(line)[i]), At(p.columns, i))
        rowOf(line) == [i \in 1..Len(cells(line)) |-> cast(line, i)]
        all == [k \in 1..Len(p.lines) |-> rowOf(p.lines[k])]
    IN  [threw |-> \E k \in 1..Len(all) : \E i \in 1..Len(all[k]) : all[k][i].threw,
         rows |-> [k \in 1..Len(all) |-> [i \in 1..Len(all[k]) |-> all[k][i].value]]]

-----------------------------------------------------------------------------
\* TableData, on values: columns is a sequence of names (strings as values),
\* rows a sequence of rows, a row a sequence of values.

\* this.#columns.indexOf(column): the first index holding it, 0 when none.
indexOf(columns, column) ==
    IF \E i \in 1..Len(columns) : columns[i] = column
    THEN CHOOSE i \in 1..Len(columns) :
            columns[i] = column /\ \A j \in 1..(i - 1) : columns[j] # column
    ELSE 0

\* Mutant of maxBy: the maximum is taken with 0 among the arguments.
maxByFromZero(columns, rws, column) ==
    LET index == indexOf(columns, column)
    IN  MathMax(<<Num(0)>> \o [k \in 1..Len(rws) |-> ToNumber(At(rws[k], index))])

maxBy(columns, rws, column) ==
    LET index == indexOf(columns, column)
    IN  MathMax([k \in 1..Len(rws) |-> ToNumber(At(rws[k], index))])

\* The compute callbacks the callers of addColumn pass: name -> function of
\* (row, columns, rows).  "percent" is App.run's, with the maxDensity it
\* closes over in arg.  A callback is a pure function: it returns a value
\* and changes none of the arrays it is handed.
densityName == Str(<<"d", "e", "n", "s", "i", "t", "y">>)
percentName == Str(<<"p", "e", "r", "c", "e", "n", "t">>)
Compute(f, arg, row, columns, rws) ==
    CASE f = "percent" ->
            RoundedPercent(ToNumber(At(row, indexOf(columns, densityName))), arg)
      [] f = "negateLast" ->
            LET x == ToNumber(At(row, Len(row)))
            IN  IF x.t = "num" THEN Num(0 - x.n) ELSE NaN
      [] f = "columnCount" -> Num(Len(columns))
      [] f = "rowCount" -> Num(Len(rws))
      [] OTHER -> Undefined

\* Mutant of addColumn: compute is handed the columns with the new name.
addColumnNewColumns(columns, rws, name, f, arg) ==
    [columns |-> Append(columns, name),
     rows |-> [k \in 1..Len(rws) |->
                 Append(rws[k], Compute(f, arg, rws[k], Append(columns, name), rws))]]

\* Mutant of addColumn: a computed NaN is not appended to its row.
addColumnSkipNaN(columns, rws, name, f, arg) ==
    [columns |-> Append(columns, name),
     rows |-> [k \in 1..Len(rws) |->
                 LET c == Compute(f, arg, rws[k], columns, rws)
                 IN  IF c.t = "nan" THEN rws[k] ELSE Append(rws[k], c)]]

\* addColumn(name, compute): [columns, rows] of the new table.
addColumn(columns, rws, name, f, arg) ==
    [columns |-> Append(columns, name),
     rows |-> [k \in 1..Len(rws) |->
                 Append(rws[k], Compute(f, arg, rws[k], columns, rws))]]

\* Mutant of compare: ascending only for 'asc', descending for anything else.
compareAscOnly(order, colIndex, a, b) ==
    IF order = "asc" THEN SubSign(At(a, colIndex), At(b, colIndex))
    ELSE SubSign(At(b, colIndex), At(a, colIndex))

\* The comparator sortBy builds: its sign for rows a and b.
compare(order, colIndex, a, b) ==
    IF order = "desc" THEN SubSign(At(b, colIndex), At(a, colIndex))
    ELSE SubSign(At(a, colIndex), At(b, colIndex))

\* Whether the comparator is a consistent comparator for these rows: then
\* Array.prototype.sort returns the one stable ordering, else the order is
\* implementation-defined.
Consistent(order, colIndex, rws) ==
    LET c(i, j) == compare(order, colIndex, rws[i], rws[j])
        n == Len(rws)
    IN  \A i, j, k \in 1..n :
            /\ c(i, j) = 0 - c(j, i)
            /\ (c(i, j) = 0 /\ c(j, k) = 0) => c(i, k) = 0
            /\ (c(i, j) < 0 /\ c(j, k) < 0) => c(i, k) < 0
            /\ (c(i, j) < 0 /\ c(j, k) = 0) => c(i, k) < 0
            /\ (c(i, j) = 0 /\ c(j, k) < 0) => c(i, k) < 0

\* [...rows].sort(compare): the orderings sort may return, as permutations p
\* (result[i] = rows[p[i]]).
SortPerms(order, colIndex, rws) ==
    LET c(i, j) == compare(order, colIndex, rws[i], rws[j])
        n == Len(rws)
    IN  IF Consistent(order, colIndex, rws)
        THEN {p \in Perms(n) : \A i, j \in 1..n :
                i < j => (c(p[i], p[j]) < 0 \/ (c(p[i], p[j]) = 0 /\ p[i] < p[j]))}
        ELSE Perms(n)

\* Mutant of orderOr: 'asc' when the argument is omitted.
orderOrAsc(order) == IF order = "omitted" THEN "asc" ELSE order

\* The order sortBy uses: 'desc' when the argument is omitted.
orderOr(order) == IF order = "omitted" THEN "desc" ELSE order

\* sortBy(column, order): the row sequences it may return.
sortBy(columns, rws, column, order) ==
    {[i \in 1..Len(rws) |-> rws[p[i]]] :
        p \in SortPerms(orderOr(order), indexOf(columns, column), rws)}

-----------------------------------------------------------------------------
\* RendererTable

\* FORMAT_OPTIONS.columns: [width, align], width 0 and align "" when not given.
FORMAT_OPTIONS ==
    <<[width |-> 18, align |-> "left"], [width |-> 10, align |-> ""],
      [width |-> 8, align |-> ""], [width |-> 8, align |-> ""],
      [width |-> 18, align |-> ""], [width |-> 6, align |-> ""]>>

Spaces(k) == [i \in 1..k |-> " "]
PadLen(s, width) == IF width > Len(s) THEN width - Len(s) ELSE 0

\* #formatCell(cell, index): padEnd for align 'left', padStart otherwise; no
\* padding for a column past the configured ones.
formatCell(options, cell, index) ==
    LET o == IF index \in 1..Len(options) THEN options[index]
             ELSE [width |-> 0, align |-> ""]
        s == ToString(cell)
    IN  IF o.align = "left" THEN s \o Spaces(PadLen(s, o.width))
        ELSE Spaces(PadLen(s, o.width)) \o s

\* #formatRow(row)
formatRow(options, row) ==
    Concat([i \in 1..Len(row) |-> formatCell(options, row[i], i)])

-----------------------------------------------------------------------------
\* App: the inputs of a run.

\* The registries: the format names of `parsers` and of `renderers`.
parsers == {"csv"}
renderers == {"table"}

Join(ss, sep) ==
    LET RECURSIVE go(_)
        go(k) == IF k > Len(ss) THEN <<>>
                 ELSE (IF k > 1 THEN <<sep>> ELSE <<>>) \o ss[k] \o go(k + 1)
    IN  go(1)

cityChars == <<"c", "i", "t", "y">>
densityChars == <<"d", "e", "n", "s", "i", "t", "y">>

percentChars == <<"p", "e", "r", "c", "e", "n", "t">>

areaChars == <<"a", "r", "e", "a">>

\* Header lines: city,density / toString,density / city,area / percent,density
Headers ==
    {cityChars \o <<",">> \o densityChars,
     toStringName \o <<",">> \o densityChars,
     cityChars \o <<",">> \o areaChars,
     percentChars \o <<",">> \o densityChars}

\* Data lines: A,100  B,400  C,200  D,2  E,x  G,6,7
DataLines ==
    {<<"A", ",", "1", "0", "0">>, <<"B", ",", "4", "0", "0">>,
     <<"C", ",", "2", "0", "0">>, <<"D", ",", "2">>, <<"E", ",", "x">>,
     <<"G", ",", "6", ",", "7">>}

\* The sequences over S of length at most n.
SeqsUpTo(S, n) == UNION {[1..k -> S] : k \in 0..n}

\* The input texts: a header line and at most MaxRows data lines.
Inputs ==
    {Join(<<h>> \o body, lineSep) : h \in Headers, body \in SeqsUpTo(DataLines, MaxRows)}

\* The schemas: {}, {density: Number}, {density: strictNumber}
Schemas ==
    {<<>>, <<[key |-> densityChars, cast |-> "Number"]>>,
     <<[key |-> densityChars, cast |-> "strictNumber"]>>}

InputFormats == {"csv", "xml"}
OutputFormats == {"table", "html"}

NoError == [message |-> "", format |-> ""]
NoParser == [columns |-> <<>>, lines |-> <<>>]
NoTable == [columns |-> <<>>, rows |-> <<>>]
NoOp == [op |-> "none", src |-> 0, dst |-> 0, column |-> Undefined,
         order |-> "", compute |-> "", value |-> Undefined]

\* The object model is idle during a run of App.
ObjIdle ==
    /\ heap = <<>>
    /\ tables = <<>>
    /\ built = <<>>
    /\ held = {}
    /\ mutations = 0
    /\ lastOp = NoOp

\* new App({...}): the fields set, run() not yet called.
InitRun ==
    /\ data \in Inputs
    /\ inputFormat \in InputFormats
    /\ outputFormat \in OutputFormats
    /\ dataSchema \in Schemas
    /\ pc = "run"
    /\ err = NoError
    /\ calls = <<>>
    /\ parser = NoParser
    /\ rows = <<>>
    /\ table = NoTable
    /\ maxDensity = Undefined
    /\ result = NoTable
    /\ rendered = <<>>
    /\ sink = <<>>
    /\ ObjIdle

inputsOfRun == <<data, inputFormat, outputFormat, dataSchema>>

\* throw new Error(...)
Throw(message, format) ==
    /\ pc' = "failed"
    /\ err' = [message |-> message, format |-> format]

\* const Parser = this.#parsers.get(this.#inputFormat); if (!Parser) throw
ResolveParser ==
    /\ pc = "run"
    /\ calls' = Append(calls, "parsers.get")
    /\ IF inputFormat \in parsers
       THEN pc' = "resolveRenderer" /\ err' = err
       ELSE Throw("No parser registered for input format", inputFormat)
    /\ UNCHANGED <<inputsOfRun, parser, rows, table, maxDensity, result, rendered, sink>>
    /\ UNCHANGED objVars

\* Mutant of ResolveRenderer: the parser is constructed before the renderer is
\* looked up.
ResolveRendererLate ==
    /\ pc = "resolveRenderer"
    /\ calls' = calls \o <<"new Parser", "renderers.get">>
    /\ IF outputFormat \in renderers
       THEN pc' = "construct" /\ err' = err
       ELSE Throw("No renderer registered for output format", outputFormat)
    /\ UNCHANGED <<inputsOfRun, parser, rows, table, maxDensity, result, rendered, sink>>
    /\ UNCHANGED objVars

\* const Renderer = this.#renderers.get(this.#outputFormat); if (!Renderer) throw
ResolveRenderer ==
    /\ pc = "resolveRenderer"
    /\ calls' = Append(calls, "renderers.get")
    /\ IF outputFormat \in renderers
       THEN pc' = "construct" /\ err' = err
       ELSE Throw("No renderer registered for output format", outputFormat)
    /\ UNCHANGED <<inputsOfRun, parser, rows, table, maxDensity, result, rendered, sink>>
    /\ UNCHANGED objVars

\* const parser = new Parser(this.#data); const renderer = new Renderer(...)
Construct ==
    /\ pc = "construct"
    /\ parser' = ParserCsvNew(data)
    /\ calls' = calls \o <<"new Parser", "new Renderer">>
    /\ pc' = "parse"
    /\ UNCHANGED <<inputsOfRun, err, rows, table, maxDensity, result, rendered, sink>>
    /\ UNCHANGED objVars

\* The rows before the first one with a cast that throws.
RowsBeforeThrow(p, types) ==
    LET ok(k) == ~toDatasetArray([p EXCEPT !.lines = SubSeq(p.lines, 1, k)], types).threw
        n == CHOOSE k \in 0..Len(p.lines) :
                ok(k) /\ \A j \in 0..Len(p.lines) : ok(j) => j <= k
    IN  toDatasetArray([p EXCEPT !.lines = SubSeq(p.lines, 1, n)], types).rows

\* Mutant of Parse: every row is written out as soon as it is cast.
ParseStreaming ==
    /\ pc = "parse"
    /\ calls' = calls \o <<"getColumns", "toDatasetArray">>
    /\ LET r == toDatasetArray(parser, dataSchema)
           done == RowsBeforeThrow(parser, dataSchema)
       IN  /\ IF r.threw
              THEN Throw("cast threw", "") /\ rows' = rows
              ELSE pc' = "table" /\ err' = err /\ rows' = r.rows
           /\ sink' = [k \in 1..Len(done) |-> formatRow(FORMAT_OPTIONS, done[k])]
    /\ UNCHANGED <<inputsOfRun, parser, table, maxDensity, result, rendered>>
    /\ UNCHANGED objVars

\* const columns = parser.getColumns(); const rows = parser.toDatasetArray(...)
\* A cast that throws ends the run.
Parse ==
    /\ pc = "parse"
    /\ calls' = calls \o <<"getColumns", "toDatasetArray">>
    /\ LET r == toDatasetArray(parser, dataSchema)
       IN  IF r.threw
           THEN Throw("cast threw", "") /\ rows' = rows
           ELSE pc' = "table" /\ err' = err /\ rows' = r.rows
    /\ UNCHANGED <<inputsOfRun, parser, table, maxDensity, result, rendered, sink>>
    /\ UNCHANGED objVars

\* const table = new TableData(columns, rows)
NewTable ==
    /\ pc = "table"
    /\ table' = [columns |-> parser.columns, rows |-> rows]
    /\ calls' = Append(calls, "new TableData")
    /\ pc' = "maxBy"
    /\ UNCHANGED <<inputsOfRun, err, parser, rows, maxDensity, result, rendered, sink>>
    /\ UNCHANGED objVars

\* const maxDensity = table.maxBy('density')
MaxDensity ==
    /\ pc = "maxBy"
    /\ maxDensity' = maxBy(table.columns, table.rows, densityName)
    /\ calls' = Append(calls, "maxBy")
    /\ pc' = "addColumn"
    /\ UNCHANGED <<inputsOfRun, err, parser, rows, table, result, rendered, sink>>
    /\ UNCHANGED objVars

\* table.addColumn('percent', (row, columns) => ...)
AddPercent ==
    /\ pc = "addColumn"
    /\ result' = addColumn(table.columns, table.rows, percentName, "percent", maxDensity)
    /\ calls' = Append(calls, "addColumn")
    /\ pc' = "sortBy"
    /\ UNCHANGED <<inputsOfRun, err, parser, rows, table, maxDensity, rendered, sink>>
    /\ UNCHANGED objVars

\* .sortBy('percent')
SortPercent ==
    /\ pc = "sortBy"
    /\ \E sorted \in sortBy(result.columns, result.rows, percentName, "omitted") :
          result' = [columns |-> result.columns, rows |-> sorted]
    /\ calls' = Append(calls, "sortBy")
    /\ pc' = "getRows"
    /\ UNCHANGED <<inputsOfRun, err, parser, rows, table, maxDensity, rendered, sink>>
    /\ UNCHANGED objVars

\* renderer.render(result.getRows()): the call
RenderCall ==
    /\ pc = "getRows"
    /\ rendered' = result.rows
    /\ calls' = calls \o <<"getRows", "render">>
    /\ pc' = "render"
    /\ UNCHANGED <<inputsOfRun, err, parser, rows, table, maxDensity, result, sink>>
    /\ UNCHANGED objVars

\* for (const row of rows) this.#output(this.#formatRow(row)): one iteration
RenderRow ==
    /\ pc = "render"
    /\ Len(sink) < Len(rendered)
    /\ sink' = Append(sink, formatRow(FORMAT_OPTIONS, rendered[Len(sink) + 1]))
    /\ UNCHANGED <<inputsOfRun, pc, err, calls, parser, rows, table, maxDensity,
                   result, rendered>>
    /\ UNCHANGED objVars

\* the loop of render ends, and run() returns
RenderEnd ==
    /\ pc = "render"
    /\ Len(sink) = Len(rendered)
    /\ pc' = "done"
    /\ UNCHANGED <<inputsOfRun, err, calls, parser, rows, table, maxDensity,
                   result, rendered, sink>>
    /\ UNCHANGED objVars

NextRun ==
    \/ ResolveParser
    \/ ResolveRenderer
    \/ Construct
    \/ Parse
    \/ NewTable
    \/ MaxDensity
    \/ AddPercent
    \/ SortPercent
    \/ RenderCall
    \/ RenderRow
    \/ RenderEnd

SpecRun == InitRun /\ [][NextRun]_vars

-----------------------------------------------------------------------------
\* TableData objects: the arrays live on the heap, an instance holds the
\* addresses of its #columns array and of its #rows array, whose elements
\* are references to the row arrays.

\* The rows an array of row references stands for.
RowsAt(h, a) == [i \in 1..Len(h[a]) |-> h[h[a][i].n]]

\* What getColumns() and getRows() of instance t return, as values.
View(h, t) == [columns |-> h[t.columns], rows |-> RowsAt(h, t.rows)]

\* rows.map(row => [...row]) on the array at address a: a new array per row
\* and a new outer array; [heap, addr].
CopyRows(h, a) ==
    LET n == Len(h[a])
        h1 == h \o [i \in 1..n |-> h[h[a][i].n]]
    IN  [heap |-> Append(h1, [i \in 1..n |-> Ref(Len(h) + i)]),
         addr |-> Len(h) + n + 1]

\* Mutant of TableDataNew: the caller's arrays are stored as they are.
TableDataNewNoCopy(h, columnsAddr, rowsAddr) ==
    [heap |-> h, table |-> [columns |-> columnsAddr, rows |-> rowsAddr]]

\* new TableData(columns, rows), its arguments the arrays at these addresses:
\* #columns = [...columns], #rows = rows.map(row => [...row]); [heap, table].
TableDataNew(h, columnsAddr, rowsAddr) ==
    LET r == CopyRows(Append(h, h[columnsAddr]), rowsAddr)
    IN  [heap |-> r.heap, table |-> [columns |-> Len(h) + 1, rows |-> r.addr]]

\* t.getColumns(): [heap, addr]
getColumns(h, t) == [heap |-> Append(h, h[t.columns]), addr |-> Len(h) + 1]

\* t.getRows(): [heap, addr]
getRows(h, t) == CopyRows(h, t.rows)

\* t.maxBy(column)
TableData_maxBy(h, t, column) == maxBy(h[t.columns], RowsAt(h, t.rows), column)

\* t.addColumn(name, compute): the new columns array and the new rows are
\* built, then handed to the constructor; [heap, table].
TableData_addColumn(h, t, name, f, arg) ==
    LET v == addColumn(h[t.columns], RowsAt(h, t.rows), name, f, arg)
        h1 == Append(h, v.columns)
        h2 == h1 \o v.rows
        h3 == Append(h2, [i \in 1..Len(v.rows) |-> Ref(Len(h1) + i)])
    IN  TableDataNew(h3, Len(h1), Len(h3))

\* Mutant of TableData_sortBy: this.#rows itself is sorted, with no copy.
TableData_sortByInPlace(h, t, column, order) ==
    {LET h1 == [h EXCEPT ![t.rows] = [i \in 1..Len(p) |-> h[t.rows][p[i]]]]
     IN  TableDataNew(h1, t.columns, t.rows) :
        p \in SortPerms(orderOr(order), indexOf(h[t.columns], column),
                        RowsAt(h, t.rows))}

\* t.sortBy(column, order): a copy of the #rows array is sorted and handed to
\* the constructor with this.#columns; the set of [heap, table] it may return.
TableData_sortBy(h, t, column, order) ==
    {LET h1 == Append(h, [i \in 1..Len(p) |-> h[t.rows][p[i]]])
     IN  TableDataNew(h1, t.columns, Len(h1)) :
        p \in SortPerms(orderOr(order), indexOf(h[t.columns], column),
                        RowsAt(h, t.rows))}

\* The caller's tables: columns k, v and at most MaxTableRows rows, the k
\* cell naming the row's place, the v cell a number.
kName == Str(<<"k">>)
vName == Str(<<"v">>)
pName == Str(<<"p">>)
RowNames == <<"a", "b", "c", "d", "e">>
CellNumbers == {0 - 1, 2}
InputRows ==
    {[i \in 1..Len(vs) |-> <<Str(<<RowNames[i]>>), Num(vs[i])>>] :
        vs \in SeqsUpTo(CellNumbers, MaxTableRows)}

\* The caller has built a columns array (address 1), the row arrays and the
\* array of rows (the last address), and has made no TableData yet.
InitTable ==
    /\ \E rws \in InputRows :
          heap = <<<<kName, vName>>>> \o rws \o <<[i \in 1..Len(rws) |-> Ref(i + 1)]>>
    /\ held = 1..Len(heap)
    /\ tables = <<>>
    /\ built = <<>>
    /\ mutations = 0
    /\ lastOp = NoOp
    /\ data = <<>>
    /\ inputFormat = ""
    /\ outputFormat = ""
    /\ dataSchema = <<>>
    /\ pc = "idle"
    /\ err = NoError
    /\ calls = <<>>
    /\ parser = NoParser
    /\ rows = <<>>
    /\ table = NoTable
    /\ maxDensity = Undefined
    /\ result = NoTable
    /\ rendered = <<>>
    /\ sink = <<>>

IsRowsArray(h, a) == h[a] # <<>> /\ \A i \in 1..Len(h[a]) : h[a][i].t = "ref"

\* The instance made by a call is recorded with what its getters return.
Made(r, op) ==
    /\ heap' = r.heap
    /\ tables' = Append(tables, r.table)
    /\ built' = Append(built, View(r.heap, r.table))
    /\ lastOp' = op

\* new TableData(columns, rows) on the caller's arrays.
New ==
    /\ tables = <<>>
    /\ \E c \in {1}, r \in held :
          /\ IsRowsArray(heap, r) \/ (heap[r] = <<>> /\ r # c)
          /\ Made(TableDataNew(heap, c, r), [NoOp EXCEPT !.op = "new", !.dst = 1])
    /\ UNCHANGED <<held, mutations>>
    /\ UNCHANGED appVars

\* The caller changes an array it holds: pop(), push(array[0]) or reverse().
Mutate ==
    /\ mutations < MaxMutations
    /\ \E a \in held :
          /\ heap[a] # <<>>
          /\ \/ heap' = [heap EXCEPT ![a] = SubSeq(heap[a], 1, Len(heap[a]) - 1)]
             \/ heap' = [heap EXCEPT ![a] = Append(heap[a], heap[a][1])]
             \/ heap' = [heap EXCEPT ![a] =
                            [i \in 1..Len(heap[a]) |-> heap[a][Len(heap[a]) + 1 - i]]]
    /\ mutations' = mutations + 1
    /\ lastOp' = [NoOp EXCEPT !.op = "mutate"]
    /\ UNCHANGED <<tables, built, held>>
    /\ UNCHANGED appVars

\* t.getColumns(): the caller holds the array returned.
GetColumns ==
    /\ Len(heap) < MaxHeap
    /\ \E t \in 1..Len(tables) :
          LET r == getColumns(heap, tables[t])
          IN  /\ heap' = r.heap
              /\ held' = held \cup {r.addr}
              /\ lastOp' = [NoOp EXCEPT !.op = "getColumns", !.src = t,
                                        !.value = Ref(r.addr)]
    /\ UNCHANGED <<tables, built, mutations>>
    /\ UNCHANGED appVars

\* t.getRows(): the caller holds the array returned and its row arrays.
GetRows ==
    /\ Len(heap) < MaxHeap
    /\ \E t \in 1..Len(tables) :
          LET r == getRows(heap, tables[t])
          IN  /\ heap' = r.heap
              /\ held' = held \cup ((Len(heap) + 1)..r.addr)
              /\ lastOp' = [NoOp EXCEPT !.op = "getRows", !.src = t,
                                        !.value = Ref(r.addr)]
    /\ UNCHANGED <<tables, built, mutations>>
    /\ UNCHANGED appVars

\* t.maxBy(column)
MaxBy ==
    /\ \E t \in 1..Len(tables), column \in {vName, pName} :
          lastOp' = [NoOp EXCEPT !.op = "maxBy", !.src = t, !.column = column,
                                 !.value = TableData_maxBy(heap, tables[t], column)]
    /\ UNCHANGED <<heap, tables, built, held, mutations>>
    /\ UNCHANGED appVars

\* t.addColumn('p', compute)
AddColumn ==
    /\ Len(tables) < MaxTables
    /\ \E t \in 1..Len(tables), f \in {"negateLast", "columnCount", "rowCount"} :
          Made(TableData_addColumn(heap, tables[t], pName, f, Undefined),
               [NoOp EXCEPT !.op = "addColumn", !.src = t, !.dst = Len(tables) + 1,
                            !.column = pName, !.compute = f])
    /\ UNCHANGED <<held, mutations>>
    /\ UNCHANGED appVars

\* t.sortBy(column), t.sortBy(column, order)
SortBy ==
    /\ Len(tables) < MaxTables
    /\ \E t \in 1..Len(tables), column \in {vName, pName},
          order \in {"omitted", "desc", "asc", "DESC"} :
          \E r \in TableData_sortBy(heap, tables[t], column, order) :
             Made(r, [NoOp EXCEPT !.op = "sortBy", !.src = t, !.dst = Len(tables) + 1,
                                  !.column = column, !.order = order])
    /\ UNCHANGED <<held, mutations>>
    /\ UNCHANGED appVars

\* A caller that builds a table and derives tables from it.
NextTable ==
    \/ New
    \/ MaxBy
    \/ AddColumn
    \/ SortBy

SpecTable == InitTable /\ [][NextTable]_vars

\* A caller that builds a table, reads it and changes the arrays it holds.
NextAlias ==
    \/ New
    \/ Mutate
    \/ GetColumns
    \/ GetRows

SpecAlias == InitTable /\ [][NextAlias]_vars

-----------------------------------------------------------------------------
\* Properties of TableData (SpecTable, SpecAlias).

Last(row) == row[Len(row)]

\* The table has rows, and every row holds a finite number in this column.
NumericColumn(v, column) ==
    /\ indexOf(v.columns, column) > 0
    /\ \A k \in 1..Len(v.rows) : At(v.rows[k], indexOf(v.columns, column)).t = "num"

\* The number row k of v holds in this column.
CellNumber(v, column, k) == v.rows[k][indexOf(v.columns, column)].n

SrcView == View(heap, tables[lastOp.src])
DstView == View(heap, tables[lastOp.dst])

\* C1: a step that is an addColumn or a sortBy call leaves what getRows() and
\* getColumns() return unchanged, for every table that existed before it.
Immutability ==
    [][lastOp'.op \in {"addColumn", "sortBy"} =>
        \A t \in 1..Len(tables) :
            View(heap, tables[t])' = View(heap, tables[t])]_vars

\* A sortBy call has returned a table whose rows are in another order than
\* those of the table it was called on.
ImmutabilityWitness ==
    /\ lastOp.op = "sortBy"
    /\ DstView.rows # SrcView.rows
    /\ SrcView = built[lastOp.src]

\* C2: whatever the caller does to the arrays it passed to the constructor
\* or got from the getters, every table's getColumns() and getRows() return
\* what they returned when the table was constructed; a getter returns
\* that value in arrays that are not the table's own.
Isolation ==
    /\ \A t \in 1..Len(tables) : View(heap, tables[t]) = built[t]
    /\ lastOp.op = "getColumns" =>
          /\ heap[lastOp.value.n] = built[lastOp.src].columns
          /\ lastOp.value.n # tables[lastOp.src].columns
    /\ lastOp.op = "getRows" =>
          /\ RowsAt(heap, lastOp.value.n) = built[lastOp.src].rows
          /\ lastOp.value.n # tables[lastOp.src].rows
          /\ \A i \in 1..Len(heap[lastOp.value.n]) :
                heap[lastOp.value.n][i] # heap[tables[lastOp.src].rows][i]

\* The caller has changed a row array that getRows() returned, and has called
\* getRows() again.
IsolationWitness ==
    /\ tables # <<>>
    /\ lastOp.op = "getRows"
    /\ \E o \in held : \E i \in 1..Len(heap[o]) :
          /\ o > tables[1].rows
          /\ o < lastOp.value.n
          /\ IsRowsArray(heap, o)
          /\ Len(heap[o]) = Len(built[1].rows)
          /\ heap[heap[o][i].n] # built[1].rows[i]

\* C3: addColumn(name, compute) returns a table with the columns of the input
\* followed by name, and row for row the input row followed by
\* compute(row, columns of the input, rows of the input).
AddColumnCorrect ==
    lastOp.op = "addColumn" =>
        /\ DstView.columns = SrcView.columns \o <<lastOp.column>>
        /\ Len(DstView.columns) = Len(SrcView.columns) + 1
        /\ Len(DstView.rows) = Len(SrcView.rows)
        /\ \A k \in 1..Len(SrcView.rows) :
              /\ SubSeq(DstView.rows[k], 1, Len(SrcView.rows[k])) = SrcView.rows[k]
              /\ Len(DstView.rows[k]) = Len(SrcView.rows[k]) + 1
              /\ Last(DstView.rows[k]) =
                    (CASE lastOp.compute = "columnCount" -> Num(Len(SrcView.columns))
                       [] lastOp.compute = "rowCount" -> Num(Len(SrcView.rows))
                       [] OTHER -> Num(0 - Last(SrcView.rows[k]).n))

\* addColumn has been called with a compute that reads the columns, on a table
\* of two rows or more that itself came from addColumn.
AddColumnWitness ==
    /\ lastOp.op = "addColumn"
    /\ lastOp.compute = "columnCount"
    /\ Len(SrcView.rows) >= 2
    /\ Len(DstView.columns) = 4

NonIncreasing(v, column) ==
    \A i, j \in 1..Len(v.rows) : i < j => CellNumber(v, column, i) >= CellNumber(v, column, j)
NonDecreasing(v, column) ==
    \A i, j \in 1..Len(v.rows) : i < j => CellNumber(v, column, i) <= CellNumber(v, column, j)

\* C4: on a table with numbers in the column, sortBy(col, 'desc') and
\* sortBy(col) return the rows non-increasing in that column, sortBy(col,
\* order) for any other order returns them non-decreasing; the columns are
\* those of the input and the rows a permutation of the input's.
SortByCorrect ==
    (lastOp.op = "sortBy" /\ NumericColumn(SrcView, lastOp.column)) =>
        /\ DstView.columns = SrcView.columns
        /\ \E p \in Perms(Len(SrcView.rows)) :
              DstView.rows = [i \in 1..Len(SrcView.rows) |-> SrcView.rows[p[i]]]
        /\ IF lastOp.order \in {"desc", "omitted"}
           THEN NonIncreasing(DstView, lastOp.column)
           ELSE NonDecreasing(DstView, lastOp.column)

\* sortBy has been called with an order that is neither 'desc' nor 'asc' and
\* has put the rows in another order.
SortByWitness ==
    /\ lastOp.op = "sortBy"
    /\ lastOp.order = "DESC"
    /\ NumericColumn(SrcView, lastOp.column)
    /\ DstView.rows # SrcView.rows

\* C5: on a table with rows and with numbers in the column, maxBy(col) is at
\* least every row's number in the column and is the number of one row.
MaxByCorrect ==
    (lastOp.op = "maxBy" /\ SrcView.rows # <<>> /\ NumericColumn(SrcView, lastOp.column)) =>
        /\ lastOp.value.t = "num"
        /\ \A k \in 1..Len(SrcView.rows) :
              CellNumber(SrcView, lastOp.column, k) <= lastOp.value.n
        /\ \E k \in 1..Len(SrcView.rows) :
              CellNumber(SrcView, lastOp.column, k) = lastOp.value.n

\* maxBy has been called on a table of two rows or more whose numbers in the
\* column are all negative.
MaxByWitness ==
    /\ lastOp.op = "maxBy"
    /\ Len(SrcView.rows) >= 2
    /\ NumericColumn(SrcView, lastOp.column)
    /\ \A k \in 1..Len(SrcView.rows) : CellNumber(SrcView, lastOp.column, k) < 0
    /\ lastOp.value = Num(0 - 1)

-----------------------------------------------------------------------------
\* Properties of App.run (SpecRun).

Called(c) == \E i \in 1..Len(calls) : calls[i] = c

\* C6: a run whose input format has no parser, or whose output format has no
\* renderer, fails with the error that names that format and its role, and
\* constructs no parser and no renderer, parses nothing and renders nothing.
UnknownFormatFails ==
    /\ inputFormat \notin parsers =>
          /\ pc \in {"run", "failed"}
          /\ pc = "failed" =>
                err = [message |-> "No parser registered for input format",
                       format |-> inputFormat]
    /\ (inputFormat \in parsers /\ outputFormat \notin renderers) =>
          /\ pc \in {"run", "resolveRenderer", "failed"}
          /\ pc = "failed" =>
                err = [message |-> "No renderer registered for output format",
                       format |-> outputFormat]
    /\ (inputFormat \notin parsers \/ outputFormat \notin renderers) =>
          /\ ~Called("new Parser")
          /\ ~Called("new Renderer")
          /\ ~Called("toDatasetArray")
          /\ ~Called("render")
          /\ parser = NoParser
          /\ sink = <<>>

\* A run has failed on its output format, its input format being registered.
UnknownFormatWitness ==
    /\ pc = "failed"
    /\ inputFormat \in parsers
    /\ outputFormat \notin renderers

\* C7: a run that has failed has written nothing, and a run that has written
\* a line has parsed and cast every row and has called maxBy, addColumn and
\* sortBy before, without an error.
NoPartialOutput ==
    /\ pc = "failed" => (sink = <<>> /\ ~Called("render"))
    /\ sink # <<>> =>
          /\ err = NoError
          /\ pc \in {"render", "done"}
          /\ Len(rows) = Len(parser.lines)
          /\ \A c \in {"toDatasetArray", "new TableData", "maxBy", "addColumn",
                       "sortBy", "render"} : Called(c)
          /\ rendered = result.rows

\* A run has failed in a cast of its second or a later row, the first row
\* cast without an error.
NoPartialOutputWitness ==
    /\ pc = "failed"
    /\ err.message = "cast threw"
    /\ Len(parser.lines) >= 2
    /\ ~toDatasetArray([parser EXCEPT !.lines = <<parser.lines[1]>>], dataSchema).threw

\* The separators of the text's lines: the places of the line separators,
\* and the places before the first and after the last character.
Breaks == {0, Len(data) + 1} \cup {i \in 1..Len(data) : data[i] = lineSep}
CellSepsBetween(a, b) == Cardinality({i \in (a + 1)..(b - 1) : data[i] = cellSep})
FirstBreak == CHOOSE b \in Breaks \ {0} : \A c \in Breaks \ {0} : b <= c

\* Every line of the text has as many cell separators as its first line.
WellFormed ==
    \A a, b \in Breaks :
        (a < b /\ \A c \in Breaks : ~(a < c /\ c < b)) =>
            CellSepsBetween(a, b) = CellSepsBetween(0, FirstBreak)

RowLengths(t) == \A k \in 1..Len(t.rows) : Len(t.rows[k]) = Len(t.columns)

\* C8 as stated: in the table run() builds, in the tables derived from it
\* and in the rows handed to the renderer, every row has as many cells as the
\* table has columns.
RowLengthInvariant ==
    /\ RowLengths(table)
    /\ RowLengths(result)
    /\ \A k \in 1..Len(rendered) : Len(rendered[k]) = Len(result.columns)

\* C8, amended: the same, for an input text whose data lines all have as many
\* cells as its header line.
RowLengthWellFormed == WellFormed => RowLengthInvariant

\* A run on such a text with two data lines or more has ended.
RowLengthWitness ==
    /\ pc = "done"
    /\ WellFormed
    /\ Len(rendered) >= 2
    /\ Len(result.columns) = 3
    /\ Len(sink) = Len(rendered)

OwnCast(types, key) == types[CHOOSE i \in 1..Len(types) : types[i].key = key].cast

\* C9 as stated: once the rows are parsed, a cell is the schema's cast of the
\* string split out of its line when the schema has an entry for the name of
\* its column, and is that string otherwise.
CastExactlySchemaColumns ==
    pc \in {"table", "maxBy", "addColumn", "sortBy", "getRows", "render", "done"} =>
        /\ Len(rows) = Len(parser.lines)
        /\ \A k \in 1..Len(rows) :
              LET raw == SplitBy(parser.lines[k], cellSep)
              IN  /\ Len(rows[k]) = Len(raw)
                  /\ \A i \in 1..Len(raw) :
                        rows[k][i] =
                            IF i <= Len(parser.columns)
                               /\ HasOwn(dataSchema, parser.columns[i].s)
                            THEN CallCast(OwnCast(dataSchema, parser.columns[i].s),
                                          Str(raw[i])).value
                            ELSE Str(raw[i])

\* What C10 says of the rows handed to the renderer.
RankedOutput ==
    LET n == Len(rows)
        at == indexOf(parser.columns, densityName)
        d(row) == ToNumber(At(row, at))
        top == MathMax([k \in 1..n |-> d(rows[k])])
        numeric == \A k \in 1..n : d(rows[k]).t = "num"
    IN  /\ Len(rendered) = Cardinality({i \in 1..Len(data) : data[i] = lineSep})
        /\ Len(rendered) = n
        /\ \E p \in Perms(n) : \A i \in 1..n :
              rendered[i] = Append(rows[p[i]], RoundedPercent(d(rows[p[i]]), top))
        /\ \A i, j \in 1..Len(rendered) :
              i < j => ~NumLess(ToNumber(Last(rendered[i])), ToNumber(Last(rendered[j])))
        /\ (numeric /\ top.t = "num" /\ top.n > 0) =>
              /\ \A k \in 1..n : d(rows[k]).n <= top.n
              /\ \E k \in 1..n : d(rows[k]).n = top.n
              /\ \A i \in 1..Len(rendered) :
                    LET q == Last(rendered[i]).n
                    IN  /\ Last(rendered[i]).t = "num"
                        /\ 2 * top.n * q - top.n <= 200 * d(rendered[i]).n
                        /\ 200 * d(rendered[i]).n < 2 * top.n * q + top.n
        /\ (numeric /\ \A k \in 1..n : d(rows[k]).n > 0) =>
              \A i \in 1..Len(rendered) :
                  d(rendered[i]) = top =>
                      /\ Last(rendered[i]) = Num(100)
                      /\ \A j \in 1..(i - 1) : Last(rendered[j]) = Num(100)

\* C10 as stated: a run that has ended handed the renderer one row per data
\* line, each the cast row followed by its percent, the percents in
\* descending order.
RunRendersRanked == pc = "done" => RankedOutput

HeaderHasPercent == \E i \in 1..Len(parser.columns) : parser.columns[i] = percentName

\* C10, amended: the same, for an input text whose data lines all have as
\* many cells as its header line and whose header names no column percent.
RunRendersRankedWellFormed ==
    (pc = "done" /\ WellFormed /\ ~HeaderHasPercent) => RankedOutput

\* The run on city,density / A,100 / B,400 / C,200 with {density: Number} has
\* ended, and has rendered B, C, A with the percents 100, 50, 25.
RunRendersRankedWitness ==
    /\ pc = "done"
    /\ Len(sink) = 3
    /\ rendered = <<<<Str(<<"B">>), Num(400), Num(100)>>,
                    <<Str(<<"C">>), Num(200), Num(50)>>,
                    <<Str(<<"A">>), Num(100), Num(25)>>>>
    /\ rows = <<<<Str(<<"A">>), Num(100)>>, <<Str(<<"B">>), Num(400)>>,
                <<Str(<<"C">>), Num(200)>>>>

====
